---- MODULE Spec2Model ----
(***************************************************************************)
(* The two export scripts of ulp-1.5: txtexport.py (mode "a", flatten-copy *)
(* plus index) and txtexport_onefile.py (mode "b", combine-concat).        *)
(*                                                                         *)
(* Strings are sequences of symbols.  A symbol is one character ("/",      *)
(* "\\", " ", "\n", "a", ...) or one of the fixed literals the scripts     *)
(* never split (".txt", "txtexport_flattened", "--- START OF FILE: ", ...).*)
(* A file name is a string, a path is a sequence of file names below       *)
(* base_dir, a file's content is a string of bytes.  The platform is the   *)
(* one base_dir names (Windows): os.sep is "\\", "/" is accepted as a      *)
(* separator, a directory listing comes back in name order.                *)
(***************************************************************************)
EXTENDS Integers, Sequences, FiniteSets, TLC

\* ------------------------------------------------------------------ bounds
MaxEntries == 3
MaxRuns == 2
BufferSize == 6

\* --------------------------------------------------------------- constants
base_dir == <<"c:\\Users\\Lenovo\\Documents\\BUSINESS\\QUETZAL COLLECTIVE LLC\\ULP\\ulp-1.5">>
ManifestName == <<"prompt_file_list", ".txt">>
OutDirName == <<"txtexport_flattened">>
IndexName == <<"project_file_system", ".txt">>
CombinedName == <<"all_files_combined", ".txt">>
IndexHeader == <<"**ULP 1.5 Project Files**", "\n", "\n">>

Whitespace == {" ", "\n"}
Separators == {"\\", "/"}

\* Symbols in the order a directory listing sorts them.
SymbolOrder == <<"a", "all_files_combined", "d", "e", "project_file_system",
                 "prompt_file_list", "txtexport_flattened", ".txt">>

\* ------------------------------------------------------------ str methods
RECURSIVE lstrip(_, _)
lstrip(s, chars) ==
    IF s # <<>> /\ Head(s) \in chars THEN lstrip(Tail(s), chars) ELSE s

RECURSIVE rstrip(_, _)
rstrip(s, chars) ==
    IF s # <<>> /\ s[Len(s)] \in chars
    THEN rstrip(SubSeq(s, 1, Len(s) - 1), chars) ELSE s

strip(s) == rstrip(lstrip(s, Whitespace), Whitespace)

\* Index of the first symbol of s that lies in chars, Len(s)+1 if none.
FirstIn(s, chars) ==
    IF \E k \in 1..Len(s) : s[k] \in chars
    THEN CHOOSE k \in 1..Len(s) :
             s[k] \in chars /\ \A j \in 1..(k - 1) : s[j] \notin chars
    ELSE Len(s) + 1

RECURSIVE splitlines(_)
splitlines(s) ==
    IF s = <<>> THEN <<>>
    ELSE LET k == FirstIn(s, {"\n"})
         IN  <<SubSeq(s, 1, k - 1)>> \o splitlines(SubSeq(s, k + 1, Len(s)))

replace(s, old, new) == [k \in 1..Len(s) |-> IF s[k] = old THEN new ELSE s[k]]

RECURSIVE str_join(_, _)
str_join(sep, parts) ==
    IF parts = <<>> THEN <<>>
    ELSE IF Len(parts) = 1 THEN parts[1]
    ELSE parts[1] \o sep \o str_join(sep, Tail(parts))

\* bytes.decode("utf-8", errors="ignore"): the undecodable byte is dropped.
decode(bytes) == SelectSeq(bytes, LAMBDA c : c # "\\xff")

\* ---------------------------------------------------------------- os.path
\* ntpath.join: a second part that starts with a separator is rooted at
\* the drive and replaces the first part's path.
path_join(a, p) ==
    IF p # <<>> /\ Head(p) \in Separators THEN <<"c:">> \o p
    ELSE IF a # <<>> /\ a[Len(a)] \in Separators THEN a \o p
    ELSE a \o <<"\\">> \o p

\* The components of a path string, empty components dropped.
RECURSIVE Components(_)
Components(s) ==
    IF s = <<>> THEN <<>>
    ELSE LET k == FirstIn(s, Separators)
             rest == Components(SubSeq(s, k + 1, Len(s)))
         IN  IF k = 1 THEN rest ELSE <<SubSeq(s, 1, k - 1)>> \o rest

\* What an absolute path string denotes: the sequence of names that leads
\* to it from base_dir. Nothing outside base_dir exists.
Locate(p) ==
    IF Len(p) >= Len(base_dir) /\ SubSeq(p, 1, Len(base_dir)) = base_dir
       /\ (Len(p) = Len(base_dir) \/ p[Len(base_dir) + 1] \in Separators)
    THEN Components(SubSeq(p, Len(base_dir) + 1, Len(p)))
    ELSE << <<"..">> >>

isdir(p, D) == Locate(p) \in D
isfile(p, F) == Locate(p) \in DOMAIN F

basename(p) ==
    LET c == Components(p) IN
    IF p = <<>> \/ p[Len(p)] \in Separators \/ c = <<>> THEN <<>> ELSE c[Len(c)]

\* os.path.relpath(p, base_dir) for p below base_dir.
relpath(p) == str_join(<<"\\">>, Locate(p))

\* ------------------------------------------------------------ file system
\* F: path -> content (the regular files); D: the set of directories.
Put(F, p, c) == [q \in DOMAIN F \cup {p} |-> IF q = p THEN c ELSE F[q]]

IsPrefix(p, q) == Len(p) <= Len(q) /\ SubSeq(q, 1, Len(p)) = p

Rank(c) == CHOOSE k \in 1..Len(SymbolOrder) : SymbolOrder[k] = c

RECURSIVE NameLess(_, _)
NameLess(m, n) ==
    IF m = <<>> THEN n # <<>>
    ELSE IF n = <<>> THEN FALSE
    ELSE IF Head(m) = Head(n) THEN NameLess(Tail(m), Tail(n))
    ELSE Rank(Head(m)) < Rank(Head(n))

RECURSIVE SortNames(_)
SortNames(S) ==
    IF S = {} THEN <<>>
    ELSE LET m == CHOOSE x \in S : \A y \in S \ {x} : NameLess(x, y)
         IN  <<m>> \o SortNames(S \ {m})

ChildNames(P, S) == {q[Len(q)] : q \in {r \in S : Len(r) = Len(P) + 1 /\ IsPrefix(P, r)}}

\* os.scandir as os.walk uses it: the sub-directory and file names of P.
ListDirs(P, D) == SortNames(ChildNames(P, D))
ListFiles(P, F) == SortNames(ChildNames(P, DOMAIN F))

\* ------------------------------------------------------------------ state
VARIABLES
    mode,             \* "a": txtexport.py, "b": txtexport_onefile.py
    run,              \* how many times the script has been started
    pc,               \* where the script stands
    fs,               \* the regular files below base_dir: path -> content
    dirs,             \* the directories below base_dir (<<>> is base_dir)
    file_paths,       \* the manifest entries read
    idx,              \* the entry the main loop stands at
    stack,            \* os.walk: directories still to list
    root,             \* os.walk: the directory being yielded
    files,            \* os.walk: files of root not yet handled
    processed_files,  \* mode a: lines collected for the index
    pending,          \* mode b: text written to combined_file, not yet on disk
    log,              \* standard output of the current run
    trace,            \* history: one record per file handled in the current run
    cur,              \* history: the entry being handled, or handled last
    fs0,              \* history: fs when the current run started
    prevOut           \* history: the output files the previous run left

vars == <<mode, run, pc, fs, dirs, file_paths, idx, stack, root, files,
          processed_files, pending, log, trace, cur, fs0, prevOut>>

prompt_file == path_join(base_dir, ManifestName)
output_dir == path_join(base_dir, OutDirName)
output_file == path_join(output_dir, CombinedName)
project_file_system_path == path_join(output_dir, IndexName)

\* ----------------------------------------------------------------- inputs
\* The project tree: a file, a directory holding a file of the same name
\* with an undecodable byte, and a nested directory.
ProjectFiles ==
    (<< <<"a">> >> :> <<"1">>)
    @@ (<< <<"d">>, <<"a">> >> :> <<"2", "\\xff">>)
    @@ (<< <<"d">>, <<"e">>, <<"project_file_system">> >> :> <<"3">>)

ProjectDirs == {<<>>, << <<"d">> >>, << <<"d">>, <<"e">> >>}

\* Output left behind by earlier use of the scripts.
StaleFiles ==
    (<<OutDirName, IndexName>> :> <<"old index">>)
    @@ (<<OutDirName, CombinedName>> :> <<"old text">>)

\* The lines a manifest is made of.
ManifestLines ==
    { <<"a">>, <<"/", "d", "\\", "a">>, <<"d">>, <<"z">>, <<>>, <<"/">> }

EntryLists == UNION {[1..n -> ManifestLines] : n \in 0..MaxEntries}

\* Manifest texts: the lines joined by newlines, possibly with whitespace
\* before the first line or after the last one.
ManifestTexts ==
    { w[1] \o str_join(<<"\n">>, ls) \o w[2] :
        ls \in EntryLists,
        w \in { <<<<>>, <<>>>>, <<<<" ">>, <<" ", "\n">>>> } }

NoEntry == [entry |-> <<>>, kind |-> "none", before |-> {}, from |-> 1]

\* A fresh project with a manifest, or a project whose manifest is gone,
\* with or without the output of earlier runs.
Init ==
    /\ mode \in {"a", "b"}
    /\ \/ /\ dirs = ProjectDirs
          /\ \E text \in ManifestTexts :
                fs = ProjectFiles @@ (<<ManifestName>> :> text)
       \/ /\ dirs = ProjectDirs
          /\ fs = ProjectFiles
       \/ /\ dirs = ProjectDirs \cup {<<OutDirName>>}
          /\ fs = StaleFiles @@ ProjectFiles
    /\ run = 1
    /\ pc = "start"
    /\ file_paths = <<>>
    /\ idx = 1
    /\ stack = <<>>
    /\ root = <<>>
    /\ files = <<>>
    /\ processed_files = <<>>
    /\ pending = <<>>
    /\ log = <<>>
    /\ trace = <<>>
    /\ cur = NoEntry
    /\ fs0 = fs
    /\ prevOut = <<>>

\* ---------------------------------------------------------------- helpers
Reverse(s) == [k \in 1..Len(s) |-> s[Len(s) + 1 - k]]

\* txtexport.py 33-34: the index line of a file found by os.walk.
WalkedIndexLine(file_path) ==
    <<"/">> \o replace(relpath(file_path), "\\", "/")

\* txtexport.py 36, 43: where a source file is copied to.
DestinationPath(source) == path_join(output_dir, basename(source) \o <<".txt">>)

\* shutil.copyfile(src, dst)
copyfile(F, src, dst) == Put(F, Locate(dst), F[Locate(src)])

\* txtexport_onefile.py 31: the path a walked file's delimiters carry.
WalkedDelimiterPath(file_path) == replace(relpath(file_path), "\\", "/")

StartLine(p) == <<"--- START OF FILE: ">> \o p \o <<" ---", "\n">>
EndLine(p) == <<"\n", "--- END OF FILE: ">> \o p \o <<" ---", "\n", "\n">>

\* combined_file.write(data): the text is buffered and reaches the disk
\* once BufferSize symbols are pending.  st = [fs, pending].
write(st, data) ==
    LET p == st.pending \o data
        o == Locate(output_file)
    IN  IF Len(p) >= BufferSize
        THEN [fs |-> Put(st.fs, o, st.fs[o] \o p), pending |-> <<>>]
        ELSE [fs |-> st.fs, pending |-> p]

\* txtexport_onefile.py 33-36 / 39-42: one block. The source is read after
\* the start line has been written.
WriteBlock(st, source, p) ==
    LET s1 == write(st, StartLine(p))
        body == decode(s1.fs[Locate(source)])
        s2 == write(s1, body)
    IN  [st |-> write(s2, EndLine(p)), body |-> body]

\* Mutant of SourcePath: the leading "/" is not stripped.
SourcePathUnstripped(relative_path) == path_join(base_dir, relative_path)

\* The main loop's source_path for a manifest entry.
SourcePath(relative_path) == path_join(base_dir, lstrip(relative_path, {"/"}))

\* What one source file does in mode a (txtexport.py 34-38 / 41-45) and in
\* mode b (txtexport_onefile.py 33-36 / 39-42); line is the path recorded.
HandleFile(source, line) ==
    IF mode = "a"
    THEN LET dst == DestinationPath(source) IN
         /\ processed_files' = Append(processed_files, line)
         /\ fs' = copyfile(fs, source, dst)
         /\ log' = Append(log, <<"Copied and renamed: ">> \o source \o <<" -> ">> \o dst)
         /\ trace' = Append(trace, [file |-> source, line |-> line, dest |-> dst,
                                    bytes |-> fs[Locate(source)]])
         /\ UNCHANGED pending
    ELSE LET b == WriteBlock([fs |-> fs, pending |-> pending], source, line) IN
         /\ fs' = b.st.fs
         /\ pending' = b.st.pending
         /\ trace' = Append(trace, [file |-> source, start |-> StartLine(line),
                                    body |-> b.body, end |-> EndLine(line)])
         /\ UNCHANGED <<processed_files, log>>

\* ---------------------------------------------------------------- actions
\* os.makedirs(output_dir, exist_ok=True)
Makedirs ==
    /\ pc = "start"
    /\ dirs' = dirs \cup {Locate(output_dir)}
    /\ pc' = "read"
    /\ UNCHANGED <<mode, run, fs, file_paths, idx, stack, root, files,
                   processed_files, pending, log, trace, cur, fs0, prevOut>>

\* Mutant of ReadManifest: a missing manifest is read as an empty one.
ReadManifestLenient ==
    /\ pc = "read"
    /\ file_paths' = IF isfile(prompt_file, fs)
                     THEN splitlines(strip(fs[Locate(prompt_file)])) ELSE <<>>
    /\ pc' = IF mode = "a" THEN "loop" ELSE "open"
    /\ UNCHANGED <<mode, run, fs, dirs, idx, stack, root, files,
                   processed_files, pending, log, trace, cur, fs0, prevOut>>

\* with open(prompt_file, "r") as file: file_paths = file.read().strip().splitlines()
ReadManifest ==
    /\ pc = "read"
    /\ IF isfile(prompt_file, fs)
       THEN /\ file_paths' = splitlines(strip(fs[Locate(prompt_file)]))
            /\ pc' = IF mode = "a" THEN "loop" ELSE "open"
       ELSE /\ pc' = "crashed"
            /\ UNCHANGED file_paths
    /\ UNCHANGED <<mode, run, fs, dirs, idx, stack, root, files,
                   processed_files, pending, log, trace, cur, fs0, prevOut>>

\* mode b: with open(output_file, "w", encoding="utf-8") as combined_file
OpenOutput ==
    /\ pc = "open"
    /\ fs' = Put(fs, Locate(output_file), <<>>)
    /\ pending' = <<>>
    /\ pc' = "loop"
    /\ UNCHANGED <<mode, run, dirs, file_paths, idx, stack, root, files,
                   processed_files, log, trace, cur, fs0, prevOut>>

AtEntry == pc = "loop" /\ idx <= Len(file_paths)

\* the entry is a directory: os.walk(source_path) starts
EntryDir ==
    /\ AtEntry
    /\ isdir(SourcePath(file_paths[idx]), dirs)
    /\ stack' = <<SourcePath(file_paths[idx])>>
    /\ files' = <<>>
    /\ pc' = "walk"
    /\ cur' = [entry |-> file_paths[idx], kind |-> "dir",
               before |-> DOMAIN fs, from |-> Len(trace) + 1]
    /\ UNCHANGED <<mode, run, fs, dirs, file_paths, idx, root,
                   processed_files, pending, log, trace, fs0, prevOut>>

\* Mutant of WalkNext: the sub-directories are pushed in listing order, so
\* the last one is listed first.
WalkNextUnreversed ==
    /\ pc = "walk"
    /\ files = <<>>
    /\ stack # <<>>
    /\ LET top == stack[Len(stack)]
           sub == ListDirs(Locate(top), dirs)
       IN  /\ root' = top
           /\ files' = ListFiles(Locate(top), fs)
           /\ stack' = SubSeq(stack, 1, Len(stack) - 1)
                       \o [k \in 1..Len(sub) |-> path_join(top, sub[k])]
    /\ UNCHANGED <<mode, run, pc, fs, dirs, file_paths, idx,
                   processed_files, pending, log, trace, cur, fs0, prevOut>>

\* os.walk lists the next directory: its files are yielded, its
\* sub-directories are pushed in reverse so that the first is listed next
WalkNext ==
    /\ pc = "walk"
    /\ files = <<>>
    /\ stack # <<>>
    /\ LET top == stack[Len(stack)]
           sub == ListDirs(Locate(top), dirs)
       IN  /\ root' = top
           /\ files' = ListFiles(Locate(top), fs)
           /\ stack' = SubSeq(stack, 1, Len(stack) - 1)
                       \o Reverse([k \in 1..Len(sub) |-> path_join(top, sub[k])])
    /\ UNCHANGED <<mode, run, pc, fs, dirs, file_paths, idx,
                   processed_files, pending, log, trace, cur, fs0, prevOut>>

\* the body of "for file in files"
WalkFile ==
    /\ pc = "walk"
    /\ files # <<>>
    /\ LET file_path == path_join(root, Head(files)) IN
       HandleFile(file_path,
                  IF mode = "a" THEN WalkedIndexLine(file_path)
                  ELSE WalkedDelimiterPath(file_path))
    /\ files' = Tail(files)
    /\ UNCHANGED <<mode, run, pc, dirs, file_paths, idx, stack, root,
                   cur, fs0, prevOut>>

\* os.walk is exhausted: on to the next manifest entry
WalkEnd ==
    /\ pc = "walk"
    /\ files = <<>>
    /\ stack = <<>>
    /\ idx' = idx + 1
    /\ pc' = "loop"
    /\ UNCHANGED <<mode, run, fs, dirs, file_paths, stack, root, files,
                   processed_files, pending, log, trace, cur, fs0, prevOut>>

\* Mutant of EntryFile: the path recorded is normalized as for walked files.
EntryFileNormalized ==
    /\ AtEntry
    /\ ~isdir(SourcePath(file_paths[idx]), dirs)
    /\ isfile(SourcePath(file_paths[idx]), fs)
    /\ HandleFile(SourcePath(file_paths[idx]),
                  IF mode = "a" THEN WalkedIndexLine(SourcePath(file_paths[idx]))
                  ELSE WalkedDelimiterPath(SourcePath(file_paths[idx])))
    /\ cur' = [entry |-> file_paths[idx], kind |-> "file",
               before |-> DOMAIN fs, from |-> Len(trace) + 1]
    /\ idx' = idx + 1
    /\ UNCHANGED <<mode, run, pc, dirs, file_paths, stack, root, files,
                   fs0, prevOut>>

\* the entry is a regular file
EntryFile ==
    /\ AtEntry
    /\ ~isdir(SourcePath(file_paths[idx]), dirs)
    /\ isfile(SourcePath(file_paths[idx]), fs)
    /\ HandleFile(SourcePath(file_paths[idx]), file_paths[idx])
    /\ cur' = [entry |-> file_paths[idx], kind |-> "file",
               before |-> DOMAIN fs, from |-> Len(trace) + 1]
    /\ idx' = idx + 1
    /\ UNCHANGED <<mode, run, pc, dirs, file_paths, stack, root, files,
                   fs0, prevOut>>

\* Mutant of EntryMissing: the missing path ends the run.
EntryMissingAborts ==
    /\ AtEntry
    /\ ~isdir(SourcePath(file_paths[idx]), dirs)
    /\ ~isfile(SourcePath(file_paths[idx]), fs)
    /\ log' = Append(log, <<"Path not found: ">> \o SourcePath(file_paths[idx]))
    /\ cur' = [entry |-> file_paths[idx], kind |-> "missing",
               before |-> DOMAIN fs, from |-> Len(trace) + 1]
    /\ pc' = "crashed"
    /\ UNCHANGED <<mode, run, fs, dirs, file_paths, idx, stack, root, files,
                   processed_files, pending, trace, fs0, prevOut>>

\* the entry is neither
EntryMissing ==
    /\ AtEntry
    /\ ~isdir(SourcePath(file_paths[idx]), dirs)
    /\ ~isfile(SourcePath(file_paths[idx]), fs)
    /\ log' = Append(log, <<"Path not found: ">> \o SourcePath(file_paths[idx]))
    /\ cur' = [entry |-> file_paths[idx], kind |-> "missing",
               before |-> DOMAIN fs, from |-> Len(trace) + 1]
    /\ idx' = idx + 1
    /\ UNCHANGED <<mode, run, pc, fs, dirs, file_paths, stack, root, files,
                   processed_files, pending, trace, fs0, prevOut>>

\* Mutant of WriteIndex: the index is opened for appending.
WriteIndexAppending ==
    /\ pc = "loop"
    /\ idx > Len(file_paths)
    /\ mode = "a"
    /\ LET p == Locate(project_file_system_path)
           old == IF p \in DOMAIN fs THEN fs[p] ELSE <<>>
       IN  fs' = Put(fs, p, old \o IndexHeader \o str_join(<<"\n">>, processed_files))
    /\ log' = Append(log, <<"Exported processed files to: ">> \o project_file_system_path)
    /\ pc' = "done"
    /\ UNCHANGED <<mode, run, dirs, file_paths, idx, stack, root, files,
                   processed_files, pending, trace, cur, fs0, prevOut>>

\* mode a, after the loop: the index is written
WriteIndex ==
    /\ pc = "loop"
    /\ idx > Len(file_paths)
    /\ mode = "a"
    /\ fs' = Put(fs, Locate(project_file_system_path),
                 IndexHeader \o str_join(<<"\n">>, processed_files))
    /\ log' = Append(log, <<"Exported processed files to: ">> \o project_file_system_path)
    /\ pc' = "done"
    /\ UNCHANGED <<mode, run, dirs, file_paths, idx, stack, root, files,
                   processed_files, pending, trace, cur, fs0, prevOut>>

\* mode b, after the loop: the with block closes combined_file
CloseOutput ==
    /\ pc = "loop"
    /\ idx > Len(file_paths)
    /\ mode = "b"
    /\ fs' = Put(fs, Locate(output_file), fs[Locate(output_file)] \o pending)
    /\ pending' = <<>>
    /\ log' = Append(log, <<"All files combined into: ">> \o output_file)
    /\ pc' = "done"
    /\ UNCHANGED <<mode, run, dirs, file_paths, idx, stack, root, files,
                   processed_files, trace, cur, fs0, prevOut>>

\* The files below the output directory.
OutputFiles(F) ==
    [q \in {r \in DOMAIN F : IsPrefix(Locate(output_dir), r)} |-> F[q]]

\* the same script is started again
Rerun ==
    /\ pc \in {"done", "crashed"}
    /\ run < MaxRuns
    /\ run' = run + 1
    /\ pc' = "start"
    /\ file_paths' = <<>>
    /\ idx' = 1
    /\ stack' = <<>>
    /\ root' = <<>>
    /\ files' = <<>>
    /\ processed_files' = <<>>
    /\ pending' = <<>>
    /\ log' = <<>>
    /\ trace' = <<>>
    /\ cur' = NoEntry
    /\ fs0' = fs
    /\ prevOut' = IF pc = "done" THEN OutputFiles(fs) ELSE <<>>
    /\ UNCHANGED <<mode, fs, dirs>>

Next ==
    \/ Makedirs
    \/ ReadManifest
    \/ OpenOutput
    \/ EntryDir
    \/ WalkNext
    \/ WalkFile
    \/ WalkEnd
    \/ EntryFile
    \/ EntryMissing
    \/ WriteIndex
    \/ CloseOutput
    \/ Rerun

Spec == Init /\ [][Next]_vars

\* ------------------------------------------------------- claim vocabulary
ManifestPath == <<ManifestName>>
IndexPath == <<OutDirName, IndexName>>
CombinedPath == <<OutDirName, CombinedName>>

\* The path a string names, written with "/" between its components.
SlashPath(names) == str_join(<<"/">>, names)

\* The records of the files handled for the entry cur describes.
Found == SubSeq(trace, cur.from, Len(trace))
FoundPaths == {Locate(Found[k].file) : k \in 1..Len(Found)}

\* The entry cur describes has been handled completely.
EntryHandled == pc \in {"loop", "done"} /\ cur.kind # "none"

\* The regular files of a snapshot S (a set of paths) below directory P.
Below(P, S) == {q \in S : Len(q) > Len(P) /\ IsPrefix(P, q)}

\* The lines of a text as the manifest file holds them: the text between
\* consecutive newlines.
Newlines(text) == {p \in 1..Len(text) : text[p] = "\n"}
NthNewline(text, j) ==
    CHOOSE p \in Newlines(text) : Cardinality({q \in Newlines(text) : q <= p}) = j
LineStart(text, j) == IF j = 1 THEN 1 ELSE NthNewline(text, j - 1) + 1
LineEnd(text, j) ==
    IF Cardinality(Newlines(text)) >= j THEN NthNewline(text, j) - 1 ELSE Len(text)
RawLine(text, j) == SubSeq(text, LineStart(text, j), LineEnd(text, j))

\* Lines that lie wholly in the whitespace before the first entry.
LeadingBlankLines(text) ==
    Cardinality({p \in Newlines(text) : \A q \in 1..p : text[q] \in Whitespace})

\* ------------------------------------------------------------------ C1
\* C1: a second run of the same exporter with the same manifest and
\* unchanged sources leaves every file below the output directory
\* byte-identical to what the first run left, and creates no further file.
C1_RerunIdempotent ==
    (pc = "done" /\ run > 1 /\ DOMAIN prevOut # {}) => OutputFiles(fs) = prevOut

\* ------------------------------------------------------------------ C2
\* C2: mode a, once a directory entry has been expanded the lines recorded
\* for it are, one each and none twice, the regular files the directory
\* held, each written "/" + its path from base_dir with "/" separators.
C2_DirectoryExpansion ==
    (mode = "a" /\ EntryHandled /\ cur.kind = "dir") =>
        /\ FoundPaths = Below(Locate(SourcePath(cur.entry)), cur.before)
        /\ Cardinality(FoundPaths) = Len(Found)
        /\ \A k \in 1..Len(Found) :
              Found[k].line = <<"/">> \o SlashPath(Locate(Found[k].file))

\* ------------------------------------------------------------------ C7
\* C7: mode a, after a complete run every handled source file with basename
\* b has a file b.txt in the output directory, holding the bytes of the
\* source with that basename that was handled last.
C7_CopiesVerbatim ==
    (mode = "a" /\ pc = "done") =>
        \A k \in 1..Len(trace) :
            LET b == basename(trace[k].file)
                same == {j \in 1..Len(trace) : basename(trace[j].file) = b}
                last == CHOOSE j \in same : \A i \in same : i <= j
                dst == <<OutDirName, b \o <<".txt">>>>
            IN  dst \in DOMAIN fs /\ fs[dst] = trace[last].bytes

\* ------------------------------------------------------------------ C8
\* C8: when the manifest file does not exist the run ends in the unhandled
\* error before any entry is handled; no file is copied, created, truncated
\* or modified, nothing is reported.
C8_ManifestMissingAborts ==
    (ManifestPath \notin DOMAIN fs0) =>
        /\ pc \in {"start", "read", "crashed"}
        /\ fs = fs0
        /\ trace = <<>>
        /\ log = <<>>

C8_Witness ==
    /\ pc = "crashed"
    /\ IndexPath \in DOMAIN fs
    /\ CombinedPath \in DOMAIN fs
    /\ Locate(output_dir) \in dirs

\* ------------------------------------------------------------------ C9
\* C9: mode b, both delimiters of every block carry the file's normalized
\* relative path: its path from base_dir with "/" separators.
C9_DelimitersNormalized ==
    mode = "b" =>
        \A k \in 1..Len(trace) :
            LET p == SlashPath(Locate(trace[k].file)) IN
            /\ trace[k].start = <<"--- START OF FILE: ">> \o p \o <<" ---", "\n">>
            /\ trace[k].end = <<"\n", "--- END OF FILE: ">> \o p \o <<" ---", "\n", "\n">>

\* ------------------------------------------------------------------ C3
\* The entry names neither a directory nor a regular file.
Neither(e) ==
    Locate(SourcePath(e)) \notin dirs /\ Locate(SourcePath(e)) \notin DOMAIN fs

NotFoundLine(e) == <<"Path not found: ">> \o SourcePath(e)

\* C3: an entry that is neither a file nor a directory is reported as
\* "Path not found", changes no file, no collected line and no output text,
\* and the loop goes on to the next entry; at the end of the run every such
\* entry has its report, none has a record, every file entry has one.
C3_MissingEntrySkipped ==
    /\ [][ (AtEntry /\ Neither(file_paths[idx])) =>
              /\ log' = Append(log, NotFoundLine(file_paths[idx]))
              /\ idx' = idx + 1
              /\ pc' = "loop"
              /\ UNCHANGED <<fs, dirs, file_paths, processed_files, pending, trace>>
         ]_vars
    /\ [](pc = "done" =>
            /\ idx = Len(file_paths) + 1
            /\ Len(SelectSeq(log, LAMBDA l : l[1] = "Path not found: "))
                  = Cardinality({k \in 1..Len(file_paths) : Neither(file_paths[k])})
            /\ \A k \in 1..Len(file_paths) :
                  /\ Neither(file_paths[k]) =>
                        \A j \in 1..Len(trace) :
                            Locate(trace[j].file) # Locate(SourcePath(file_paths[k]))
                  /\ Components(file_paths[k]) \in DOMAIN fs0 =>
                        \E j \in 1..Len(trace) :
                            Locate(trace[j].file) = Components(file_paths[k]))

C3_Witness ==
    /\ pc = "done"
    /\ Len(file_paths) = 2
    /\ Neither(file_paths[1])
    /\ log[1] = NotFoundLine(file_paths[1])
    /\ trace # <<>>

\* ------------------------------------------------------------------ C4
\* The regular files of the tree at P in traversal order: the files of a
\* directory in listing order, then its sub-directories in listing order.
RECURSIVE TreeFiles(_, _, _)
RECURSIVE TreesOf(_, _, _, _)
TreesOf(P, names, S, D) ==
    IF names = <<>> THEN <<>>
    ELSE TreeFiles(P \o <<Head(names)>>, S, D) \o TreesOf(P, Tail(names), S, D)
TreeFiles(P, S, D) ==
    LET here == SortNames(ChildNames(P, S)) IN
    [k \in 1..Len(here) |-> P \o <<here[k]>>]
        \o TreesOf(P, SortNames(ChildNames(P, D)), S, D)

\* The files a manifest resolves to, in discovery order.
RECURSIVE Discovery(_, _, _)
Discovery(entries, S, D) ==
    IF entries = <<>> THEN <<>>
    ELSE LET t == Components(Head(entries))
             these == IF t \in D THEN TreeFiles(t, S, D)
                      ELSE IF t \in S THEN <<t>> ELSE <<>>
         IN  these \o Discovery(Tail(entries), S, D)

RECURSIVE Concat(_)
Concat(ss) == IF ss = <<>> THEN <<>> ELSE Head(ss) \o Concat(Tail(ss))

BlockText(r) == r.start \o r.body \o r.end
BlocksUpTo(n) == Concat([k \in 1..n |-> BlockText(trace[k])])

IsStartLine(l) ==
    /\ Len(l) >= 3
    /\ l[1] = "--- START OF FILE: "
    /\ l[Len(l) - 1] = " ---"
    /\ l[Len(l)] = "\n"
    /\ \A k \in 1..(Len(l) - 1) : l[k] # "\n"

\* newline, end-delimiter line, blank line
IsEndTail(l) ==
    /\ Len(l) >= 5
    /\ l[1] = "\n"
    /\ l[2] = "--- END OF FILE: "
    /\ l[Len(l) - 2] = " ---"
    /\ l[Len(l) - 1] = "\n"
    /\ l[Len(l)] = "\n"
    /\ \A k \in 2..(Len(l) - 2) : l[k] # "\n"

\* C4: mode b, after a complete run the combined file is exactly the blocks
\* of the resolved files in discovery order, each block a start-delimiter
\* line, the text read from the file, a newline, an end-delimiter line and a
\* blank line. (The combined file, when it is itself among the resolved
\* files, reads as the part of the output that had reached the disk.)
C4_CombinedIsBlocksInOrder ==
    (mode = "b" /\ pc = "done") =>
        LET expected == Discovery(file_paths, DOMAIN fs, dirs) IN
        /\ Len(trace) = Len(expected)
        /\ \A k \in 1..Len(trace) :
              /\ Locate(trace[k].file) = expected[k]
              /\ IsStartLine(trace[k].start)
              /\ IsEndTail(trace[k].end)
              /\ IF expected[k] = CombinedPath
                 THEN LET sofar == BlocksUpTo(k - 1) \o trace[k].start IN
                      /\ Len(trace[k].body) <= Len(sofar)
                      /\ trace[k].body = SubSeq(sofar, 1, Len(trace[k].body))
                 ELSE trace[k].body = SelectSeq(fs[expected[k]], LAMBDA c : c # "\\xff")
        /\ fs[CombinedPath] = BlocksUpTo(Len(trace))

C4_Witness ==
    /\ mode = "b"
    /\ pc = "done"
    /\ file_paths = << <<"d">>, <<"a">> >>
    /\ Len(trace) = 3
    /\ Locate(trace[3].file) = << <<"a">> >>
    /\ Len(fs[CombinedPath]) > BufferSize

\* ------------------------------------------------------------------ C5
ManifestText == fs0[ManifestPath]

\* A direct file entry has just been recorded; it is entry idx - 1, which
\* stands on this line of the manifest file.
JustRecordedFile == mode = "a" /\ pc = "loop" /\ cur.kind = "file"
RecordedLineNo == idx - 1 + LeadingBlankLines(ManifestText)
LastRecorded == processed_files[Len(processed_files)]

IndexBody == SubSeq(fs[IndexPath], Len(IndexHeader) + 1, Len(fs[IndexPath]))
IndexLineCount ==
    IF IndexBody = <<>> THEN 0 ELSE Cardinality(Newlines(IndexBody)) + 1
CopiedLines == SelectSeq(log, LAMBDA l : l[1] = "Copied and renamed: ")
OnlyFileEntries ==
    \A k \in 1..Len(file_paths) : Components(file_paths[k]) \in DOMAIN fs0

\* C6: mode a, after a complete run the index is the header, a blank line
\* and one line per handled file, in the order they were handled, each
\* naming its file; for a manifest of valid file entries only, the lines are
\* the manifest entries in manifest order, duplicates included.
C6_IndexLinesInOrder ==
    (mode = "a" /\ pc = "done") =>
        /\ SubSeq(fs[IndexPath], 1, Len(IndexHeader)) = IndexHeader
        /\ IndexLineCount = Len(CopiedLines)
        /\ IndexLineCount = Len(trace)
        /\ IndexBody = Concat([k \in 1..Len(trace) |->
                                  (IF k = 1 THEN <<>> ELSE <<"\n">>) \o trace[k].line])
        /\ \A k \in 1..Len(trace) :
              /\ trace[k].line # <<>>
              /\ \A j \in 1..Len(trace[k].line) : trace[k].line[j] # "\n"
              /\ Components(trace[k].line) = Locate(trace[k].file)
        /\ OnlyFileEntries =>
              /\ IndexLineCount = Len(file_paths)
              /\ \A k \in 1..Len(file_paths) : trace[k].line = file_paths[k]

C6_Witness ==
    /\ mode = "a"
    /\ pc = "done"
    /\ OnlyFileEntries
    /\ Len(file_paths) = 2
    /\ file_paths[1] = file_paths[2]
    /\ IndexLineCount = 2

\* ------------------------------------------------------------------ C10
SlashesOnly(e) == \A k \in 1..Len(e) : e[k] = "/"

\* C10: an entry that is empty or made of "/" only is not reported missing;
\* it names base_dir, is taken as a directory, and its expansion handles
\* every regular file that was below base_dir when it began, the manifest
\* file and the files of the output directory included.
C10_BlankEntryIsBaseDir ==
    (cur.kind # "none" /\ SlashesOnly(cur.entry)) =>
        /\ cur.kind = "dir"
        /\ Locate(SourcePath(cur.entry)) = <<>>
        /\ \A k \in 1..Len(log) : log[k][1] = "Path not found: " =>
              Locate(SubSeq(log[k], 2, Len(log[k]))) # <<>>
        /\ EntryHandled => cur.before \subseteq FoundPaths

C10_Witness ==
    /\ EntryHandled
    /\ cur.entry = <<>>
    /\ cur.kind = "dir"
    /\ ManifestPath \in FoundPaths
    /\ \E q \in FoundPaths : Len(q) = 2 /\ q[1] = OutDirName

====
